---- MODULE Spec2Model ----
(***************************************************************************)
(* MediaOptimiser.py: the walker (move_gamelists, copy_media_folders) and  *)
(* the three converters (optimize_video, optimize_image, optimize_pdf).    *)
(*                                                                         *)
(* A file name is a sequence of one-character strings, a directory is a    *)
(* sequence of folder names, a path is [dir, base].  A tree (input or      *)
(* output) is a function from the paths of its files to their contents;    *)
(* a content is [origin, form, size]: the source file the bytes derive     *)
(* from, what produced them, and their length.  Two files are              *)
(* byte-identical exactly when their contents are equal.                   *)
(*                                                                         *)
(* What the external collaborators do (ffmpeg, MediaInfo, cwebp, Pillow,   *)
(* ocrmypdf, PyMuPDF, pikepdf), and whether shutil.copy2 and os.remove     *)
(* raise, is the environment of a job: a record the action draws from a    *)
(* finite set.  Each converter is a function of the trees and of that      *)
(* record.  Within one job the copies to the destination share one         *)
(* outcome and so do the removals: a full disk or a read-only file lasts   *)
(* for the job.                                                            *)
(***************************************************************************)
EXTENDS Integers, Sequences, FiniteSets, TLC

VARIABLES inp, out, tmp, flags, pc, exit_code, run, rec, work, counters, snap, last

vars == <<inp, out, tmp, flags, pc, exit_code, run, rec, work, counters, snap, last>>

\* Largest size of a source file; a tool may write up to MaxSize + 1 bytes.
MaxSize == 2

\* Largest number of files in the input tree.
MaxFiles == 2

MaxOut == MaxSize + 1

(***************************************************************************)
(* Strings                                                                 *)
(***************************************************************************)

\* str.startswith(prefix)
StartsWith(s, prefix) ==
    /\ Len(s) >= Len(prefix)
    /\ SubSeq(s, 1, Len(prefix)) = prefix

\* str.endswith(suffix)
EndsWith(s, suffix) ==
    /\ Len(s) >= Len(suffix)
    /\ SubSeq(s, Len(s) - Len(suffix) + 1, Len(s)) = suffix

\* str.lower(), on the letters the file names use
LowerChar(c) ==
    CASE c = "P" -> "p"
      [] c = "N" -> "n"
      [] c = "G" -> "g"
      [] c = "M" -> "m"
      [] OTHER -> c

Lower(s) == [i \in 1..Len(s) |-> LowerChar(s[i])]

\* sub in s, for two strings
IsSubstring(sub, s) ==
    \E k \in 0..(Len(s) - Len(sub)) : SubSeq(s, k + 1, k + Len(sub)) = sub

\* `c in s`
Contains(s, c) == \E i \in 1..Len(s) : s[i] = c

\* os.path.splitext: the extension starts at the last dot that is not the
\* leading character of the name; leading dots are skipped.
LeadingDots(s) ==
    IF \A i \in 1..Len(s) : s[i] = "."
    THEN Len(s)
    ELSE (CHOOSE i \in 1..Len(s) : s[i] # "." /\ \A j \in 1..(i - 1) : s[j] = ".") - 1

LastDot(s) ==
    LET dots == {i \in (LeadingDots(s) + 1)..Len(s) : s[i] = "."}
    IN IF dots = {} THEN 0 ELSE CHOOSE i \in dots : \A j \in dots : j <= i

SplitextRoot(s) == IF LastDot(s) = 0 THEN s ELSE SubSeq(s, 1, LastDot(s) - 1)

SplitextExt(s) == IF LastDot(s) = 0 THEN <<>> ELSE SubSeq(s, LastDot(s), Len(s))

DotMp4 == <<".", "m", "p", "4">>
DotMkv == <<".", "m", "k", "v">>
DotPdf == <<".", "p", "d", "f">>
DotPng == <<".", "p", "n", "g">>
DotJpg == <<".", "j", "p", "g">>
DotJpeg == <<".", "j", "p", "e", "g">>
HiddenPrefix == <<".", "_">>
GamelistName == <<"g", "a", "m", "e", "l", "i", "s", "t", ".", "x", "m", "l">>

\* A hidden-file test that lets every name through.
IsHiddenNever(base) == FALSE

\* os.path.basename(source_file).startswith("._")
IsHidden(base) == StartsWith(base, HiddenPrefix)

(***************************************************************************)
(* Trees                                                                   *)
(***************************************************************************)

\* os.path.exists
Exists(fs, p) == p \in DOMAIN fs

\* os.path.exists(p) and os.path.getsize(p) > 0
NonEmpty(fs, p) == Exists(fs, p) /\ fs[p].size > 0

Put(fs, p, c) == [q \in (DOMAIN fs) \cup {p} |-> IF q = p THEN c ELSE fs[q]]

Del(fs, p) == [q \in (DOMAIN fs) \ {p} |-> fs[q]]

EmptyTree == [q \in {} |-> 0]

Original(s, n) == [origin |-> s, form |-> "orig", size |-> n]

Made(s, how, n) == [origin |-> s, form |-> how, size |-> n]

\* What a tool leaves at p: r.out = -1 nothing (p is as it was), else a
\* file of r.out bytes, which is a truncated one when the tool raised.
ToolWrite(fs, p, s, r, how) ==
    IF r.out = -1 THEN fs
    ELSE Put(fs, p, Made(s, IF r.status = "ok" THEN how ELSE "partial", r.out))

\* shutil.copy2(src, dst) with outcome c: the whole file, or an exception
\* that leaves nothing or a truncated file at dst.
CopyWrite(fs, p, content, c) ==
    CASE c = "ok" -> Put(fs, p, content)
      [] c = "raise_none" -> fs
      [] c = "raise_partial" -> Put(fs, p, [content EXCEPT !.form = "partial", !.size = 1])

CopyResults == {"ok", "raise_none", "raise_partial"}

\* A tool that reports by exit status or by raising: "ok" with the output it
\* wrote (none, empty or n bytes), "fail" or "raise" with what it left.
\* The sizes written are 1, the size of the largest source, and one more.
ToolResults ==
    [status : {"ok"}, out : {-1, 0, 1, MaxSize, MaxOut}]
        \cup [status : {"fail", "raise"}, out : {-1, 1}]

NoTool == [status |-> "ok", out |-> -1]

\* python-ffmpeg's execute() raises on a non-zero exit: it never "fails".
FfmpegResults == {r \in ToolResults : r.status # "fail"}

\* A tool that writes into the temporary directory: what it leaves there
\* when it fails is removed with the directory and is not told apart.
TempResults == {r \in ToolResults : r.status = "ok" \/ r.out = -1}

(***************************************************************************)
(* The outcome of a converter call                                         *)
(*   ret        the value returned (FALSE when the call raised)            *)
(*   raised     an exception left the function                             *)
(*   out, tmp   the output tree and the temporary entries afterwards       *)
(*   tools      the collaborators and copies invoked, in order             *)
(*   decision   "exists" | "invalid" | "hidden" (the three early returns)  *)
(*              or "proceed"                                               *)
(*   path       the exit taken                                             *)
(*   optimised  the size comparison ran on an output the tool produced     *)
(*   absent     the primary optimisation tool was not available            *)
(***************************************************************************)
Res(ret, fs, tm, tools, decision, path, optimised, absent) ==
    [ret |-> ret, raised |-> FALSE, out |-> fs, tmp |-> tm, tools |-> tools,
     decision |-> decision, path |-> path, optimised |-> optimised,
     absent |-> absent]

(***************************************************************************)
(* optimize_video                                                          *)
(***************************************************************************)

\* The environment of a video job.  A field the job does not read is held
\* at one value: no second tool result when the first one ends the job.
VEnv(probe, enc, remux, copy, rm) ==
    [probe |-> probe, enc |-> enc, remux |-> remux, copy |-> copy, rm |-> rm]

Wrote(results) == {r \in results : r.status = "ok" /\ r.out >= 1}

WroteNothing(results) == {r \in results : r.status = "ok" /\ r.out <= 0}

Raised(results) == {r \in results : r.status = "raise"}

Failed(results) == {r \in results : r.status = "fail"}

VideoEnv ==
    {VEnv("raise", NoTool, NoTool, "ok", rm) : rm \in BOOLEAN}
        \cup {VEnv("novideo", NoTool, NoTool, "ok", TRUE)}
        \cup {VEnv("video", enc, NoTool, "ok", rm) :
                enc \in Raised(FfmpegResults), rm \in BOOLEAN}
        \cup {VEnv("video", enc, NoTool, "ok", TRUE) : enc \in WroteNothing(FfmpegResults)}
        \cup {VEnv("video", enc, NoTool, "ok", FALSE) : enc \in Wrote(FfmpegResults)}
        \cup {VEnv("video", enc, remux, "ok", TRUE) :
                enc \in Wrote(FfmpegResults), remux \in Wrote(FfmpegResults)}
        \cup {VEnv("video", enc, remux, copy, TRUE) :
                enc \in Wrote(FfmpegResults),
                remux \in Raised(FfmpegResults) \cup WroteNothing(FfmpegResults),
                copy \in CopyResults}

\* A handler that returns False and leaves the partial output in place.
VideoHandlerKeeps(fs, tm, d, e, tools) ==
    Res(FALSE, fs, tm, tools, "proceed", "error", FALSE, FALSE)

\* except Exception: remove the partial output if there is one, return False
VideoHandler(fs, tm, d, e, tools) ==
    Res(FALSE, IF Exists(fs, d) /\ e.rm THEN Del(fs, d) ELSE fs, tm, tools,
        "proceed", "error", FALSE, FALSE)

\* shutil.copy2(source_file, dest_file) in the handler of the remux
VideoCopyInHandler(src, fs, tm, s, d, e, tools) ==
    LET o == CopyWrite(fs, d, src[s], e.copy)
        t == Append(tools, "copy2")
    IN IF e.copy = "ok"
       THEN Res(TRUE, o, tm, t, "proceed", "copied", TRUE, FALSE)
       ELSE VideoHandler(o, tm, d, e, t)

\* A remux whose result is kept whatever it wrote.
VideoRemuxUnchecked(src, fs, tm, s, d, e, tools) ==
    Res(TRUE, ToolWrite(fs, d, s, e.remux, "remux"), tm,
        Append(tools, "ffmpeg_remux"), "proceed", "remuxed", TRUE, FALSE)

\* The stream-copy remux of the source, and the copy it falls back to.
VideoRemux(src, fs, tm, s, d, e, tools) ==
    LET o1 == ToolWrite(fs, d, s, e.remux, "remux")
        t1 == Append(tools, "ffmpeg_remux")
    IN IF e.remux.status = "raise"
       THEN VideoCopyInHandler(src, o1, tm, s, d, e, t1)
       ELSE IF NonEmpty(o1, d)
       THEN Res(TRUE, o1, tm, t1, "proceed", "remuxed", TRUE, FALSE)
       ELSE LET o2 == CopyWrite(o1, d, src[s], e.copy)
                t2 == Append(t1, "copy2")
            IN IF e.copy = "ok"
               THEN Res(TRUE, o2, tm, t2, "proceed", "copied", TRUE, FALSE)
               ELSE VideoCopyInHandler(src, o2, tm, s, d, e, t2)

\* An early return that comes after the temporary directory was made.
SkipLeavesTempDir(ret, fs, tm, d, decision) ==
    Res(ret, fs, tm \cup {[at |-> d.dir, what |-> "webp_dir", of |-> <<>>]}, <<>>,
        decision, "skip", FALSE, FALSE)

\* The early returns of the three converters: print and return, before the
\* temporary directory is made and before any tool is called.
Skip(ret, fs, tm, d, decision) ==
    Res(ret, fs, tm, <<>>, decision, "skip", FALSE, FALSE)

\* A size comparison that keeps the transcoded file whatever its size.
KeepTranscodedAlways(input_size, output_size) == TRUE

\* `input_size < output_size` decides for the remux; otherwise keep.
KeepTranscoded(input_size, output_size) == ~(input_size < output_size)

\* A destination test that never finds the work done.
DestDoneNever(fs, d) == FALSE

\* The first early return of the converters and of the walker.
DestDone(fs, d) == NonEmpty(fs, d)

\* The second early return: the source is missing or empty.
SourceInvalid(src, s) == ~Exists(src, s) \/ src[s].size = 0

optimize_video(src, fs, tm, s, d, e) ==
    IF DestDone(fs, d)
    THEN Skip(TRUE, fs, tm, d, "exists")
    ELSE IF SourceInvalid(src, s)
    THEN Skip(FALSE, fs, tm, d, "invalid")
    ELSE IF IsHidden(s.base)
    THEN Skip(FALSE, fs, tm, d, "hidden")
    ELSE IF e.probe = "raise"
    THEN VideoHandler(fs, tm, d, e, <<"mediainfo">>)
    ELSE IF e.probe = "novideo"
    THEN Res(FALSE, fs, tm, <<"mediainfo">>, "proceed", "no_video", FALSE, FALSE)
    ELSE LET o1 == ToolWrite(fs, d, s, e.enc, "x265")
             t1 == <<"mediainfo", "ffmpeg">>
         IN IF e.enc.status = "raise"
            THEN VideoHandler(o1, tm, d, e, t1)
            ELSE IF ~NonEmpty(o1, d)
            THEN Res(FALSE, o1, tm, t1, "proceed", "empty_output", FALSE, FALSE)
            ELSE IF KeepTranscoded(src[s].size, o1[d].size)
            THEN Res(TRUE, o1, tm, t1, "proceed", "transcoded", TRUE, FALSE)
            ELSE IF ~e.rm
            THEN VideoHandler(o1, tm, d, e, t1)
            ELSE VideoRemux(src, Del(o1, d), tm, s, d, e, t1)

(***************************************************************************)
(* Temporary entries of the output tree: [at, what, of], the directory of  *)
(* the destination they lie in, what they are and what their name is made  *)
(* of: the job for a name with random digits, the clock second for a name  *)
(* made of the time alone, nothing for a fixed name.                       *)
(***************************************************************************)
Temp(d, what, s) == [at |-> d.dir, what |-> what, of |-> s]

\* .tmp_webp_conversion has one fixed name per destination directory.
WebpDir(d) == [at |-> d.dir, what |-> "webp_dir", of |-> <<>>]

\* os.rmdir succeeds on an empty directory only.
WebpDirEmpty(tm, d) ==
    ~\E x \in tm : x.at = d.dir /\ x.what \in {"webp_input", "webp_output"}

(***************************************************************************)
(* optimize_image                                                          *)
(***************************************************************************)

WhichResults == {"found", "notfound", "raise"}

\* A library call raises or returns: it has no exit status.
LibResults == {r \in TempResults : r.status # "fail"}

\* " " in source_file or "(" in source_file or ")" in source_file
has_special_chars(s) ==
    Contains(s.base, " ") \/ Contains(s.base, "(") \/ Contains(s.base, ")")

\* ext in [".png", ".jpg", ".jpeg"], ext the lower-cased os.path.splitext
SupportedImage(s) == Lower(SplitextExt(s.base)) \in {DotPng, DotJpg, DotJpeg}

\* The environment of an image job.  A field the job does not read is held
\* at one value.
IEnv(cpIn, conv, cpOut, rm) ==
    [cpIn |-> cpIn, webp |-> conv[1], which |-> conv[2], bin |-> conv[3],
     pillow |-> conv[4], cpOut |-> cpOut, rm |-> rm]

\* What the encoders do for a file without special characters ...
ConvPlainEnv ==
    {<<webp, "found", NoTool, NoTool>> : webp \in TempResults \ Failed(TempResults)}
        \cup {<<webp, which, NoTool, NoTool>> :
                webp \in Failed(TempResults), which \in {"notfound", "raise"}}
        \cup {<<webp, "found", bin, NoTool>> :
                webp \in Failed(TempResults), bin \in TempResults}

\* ... and for a file with them.
ConvSpecialEnv ==
    {<<NoTool, "raise", NoTool, NoTool>>}
        \cup {<<NoTool, "found", bin, NoTool>> : bin \in TempResults}
        \cup {<<NoTool, "notfound", NoTool, pillow>> : pillow \in LibResults}

ImageEnvOf(convs) ==
    {IEnv(cpIn, <<NoTool, "found", NoTool, NoTool>>, "ok", rm) :
        cpIn \in CopyResults \ {"ok"}, rm \in BOOLEAN}
        \cup {IEnv("ok", conv, cpOut, rm) :
                conv \in convs, cpOut \in CopyResults, rm \in BOOLEAN}

ImageEnv(s) ==
    ImageEnvOf(IF has_special_chars(s) THEN ConvSpecialEnv ELSE ConvPlainEnv)

\* A run of [which cwebp] and of the binary it names.
RunBinary(e, tools, before) ==
    LET t == Append(tools, "which")
    IN CASE e.which = "raise" -> [success |-> FALSE, size |-> before, tools |-> t,
                                  absent |-> FALSE]
         [] e.which = "notfound" -> [success |-> FALSE, size |-> before, tools |-> t,
                                     absent |-> TRUE]
         [] e.which = "found" ->
              [success |-> e.bin.status = "ok",
               size |-> IF e.bin.out = -1 THEN before ELSE e.bin.out,
               tools |-> Append(t, "cwebp_bin"), absent |-> FALSE]

\* Files with special characters: the binary by its resolved path, Pillow
\* when there is none.
ConvertSpecial(e) ==
    IF e.which = "notfound"
    THEN [success |-> e.pillow.status = "ok", size |-> e.pillow.out,
          tools |-> <<"which", "pillow">>, absent |-> TRUE]
    ELSE RunBinary(e, <<>>, -1)

\* Other files: the webptools wrapper, then the binary when the wrapper
\* returned a non-zero exit code.
ConvertPlain(e) ==
    CASE e.webp.status = "ok" ->
           [success |-> TRUE, size |-> e.webp.out, tools |-> <<"webptools">>,
            absent |-> FALSE]
      [] e.webp.status = "raise" ->
           [success |-> FALSE, size |-> e.webp.out, tools |-> <<"webptools">>,
            absent |-> TRUE]
      [] e.webp.status = "fail" -> RunBinary(e, <<"webptools">>, e.webp.out)

\* A cleanup that removes the temporary files and forgets the directory.
ImageFinallyKeepsDir(tm, s, d, e) ==
    IF (Temp(d, "webp_input", s) \in tm \/ Temp(d, "webp_output", s) \in tm) /\ ~e.rm
    THEN [tmp |-> tm, raised |-> TRUE]
    ELSE [tmp |-> tm \ {Temp(d, "webp_input", s), Temp(d, "webp_output", s)},
          raised |-> FALSE]

\* finally: remove temp_input, temp_output, then the directory if it is
\* empty.  os.remove is not guarded: when it raises, the rest is skipped and
\* the exception leaves the finally block.
ImageFinally(tm, s, d, e) ==
    LET tin == Temp(d, "webp_input", s)
        tout == Temp(d, "webp_output", s)
    IN IF (tin \in tm \/ tout \in tm) /\ ~e.rm
       THEN [tmp |-> tm, raised |-> TRUE]
       ELSE LET left == tm \ {tin, tout}
            IN [tmp |-> IF WebpDirEmpty(left, d) THEN left \ {WebpDir(d)} ELSE left,
                raised |-> FALSE]

\* except Exception: remove the destination if there is one, return False
ImageHandler(fs, tm, d, e, tools, absent) ==
    Res(FALSE, IF Exists(fs, d) /\ e.rm THEN Del(fs, d) ELSE fs, tm, tools,
        "proceed", "error", FALSE, absent)

\* The return through the finally block: what cleanup raises replaces it.
ImageReturn(fs, tm, s, d, e, tools, path, optimised, absent) ==
    LET f == ImageFinally(tm, s, d, e)
    IN IF f.raised
       THEN ImageHandler(fs, f.tmp, d, e, tools, absent)
       ELSE Res(TRUE, fs, f.tmp, tools, "proceed", path, optimised, absent)

\* An exception inside the try block, through the finally block.
ImageRaise(fs, tm, s, d, e, tools, absent) ==
    ImageHandler(fs, ImageFinally(tm, s, d, e).tmp, d, e, tools, absent)

\* conversion_success and os.path.exists(temp_output) and getsize > 0
UsableOutput(c) == c.success /\ c.size > 0

optimize_image(src, fs, tm, s, d, e) ==
    IF DestDone(fs, d)
    THEN Skip(TRUE, fs, tm, d, "exists")
    ELSE IF SourceInvalid(src, s)
    THEN Skip(FALSE, fs, tm, d, "invalid")
    ELSE IF IsHidden(s.base)
    THEN Skip(FALSE, fs, tm, d, "hidden")
    ELSE IF ~SupportedImage(s)
    THEN LET o == CopyWrite(fs, d, src[s], e.cpOut)
         IN IF e.cpOut = "ok"
            THEN Res(TRUE, o, tm, <<"copy2">>, "proceed", "unsupported", FALSE, FALSE)
            ELSE ImageHandler(o, tm, d, e, <<"copy2">>, FALSE)
    ELSE LET tm1 == tm \cup {WebpDir(d)}
             tm2 == IF e.cpIn = "raise_none" THEN tm1
                    ELSE tm1 \cup {Temp(d, "webp_input", s)}
         IN IF e.cpIn # "ok"
            THEN ImageRaise(fs, tm2, s, d, e, <<"copy2">>, FALSE)
            ELSE LET c == IF has_special_chars(s) THEN ConvertSpecial(e)
                          ELSE ConvertPlain(e)
                     tm3 == IF c.size = -1 THEN tm2
                            ELSE tm2 \cup {Temp(d, "webp_output", s)}
                     t == Append(<<"copy2">> \o c.tools, "copy2")
                     webp == UsableOutput(c) /\ ~(src[s].size < c.size)
                     o == CopyWrite(fs, d,
                                    IF webp THEN Made(s, "webp", c.size) ELSE src[s],
                                    e.cpOut)
                 IN IF e.cpOut # "ok"
                    THEN ImageRaise(o, tm3, s, d, e, t, c.absent)
                    ELSE ImageReturn(o, tm3, s, d, e, t,
                                     IF webp THEN "optimized" ELSE "copied",
                                     UsableOutput(c), c.absent)

(***************************************************************************)
(* optimize_pdf                                                            *)
(***************************************************************************)

ScanResults == {"needs", "optimal", "raise"}

\* What PyMuPDF's extract_image reports of an embedded image: the encoding
\* of its data ("jpx" for JPEG2000, "jb2" for JBIG2) and, under the key
\* "cs-name", the name of its colour space.
DeviceRGB == <<"D", "e", "v", "i", "c", "e", "R", "G", "B">>

DeviceGray == <<"D", "e", "v", "i", "c", "e", "G", "r", "a", "y">>

JP2 == <<"J", "P", "2">>

JBIG2 == <<"J", "B", "I", "G", "2">>

MaxImages == 2

ImageKinds == [encoding : {"jpx", "jb2", "jpeg"}, cs_name : {DeviceRGB, DeviceGray}]

\* The embedded images of a PDF: at most MaxImages kinds of them.
PdfImages == {x \in SUBSET ImageKinds : Cardinality(x) <= MaxImages}

\* compression = base_image.get("cs-name", "");
\* if "JP2" not in compression and "JBIG2" not in compression:
\*     needs_optimization = True
needs_optimization(images) ==
    \E i \in images :
        LET compression == i.cs_name
        IN ~IsSubstring(JP2, compression) /\ ~IsSubstring(JBIG2, compression)

\* The outcome of the scan when nothing in it raises.
ScanOf(images) == IF needs_optimization(images) THEN "needs" ELSE "optimal"

\* The environment of a PDF job.  A field the job does not read is held at
\* one value.  now is int(time.time()) when the job starts: the jobs of a
\* walk and the single calls start within one second, the jobs run in
\* pairs (SpecTemp) start in any second.
PEnv(has, ocr1, ocr2, scan, pike, cpOut, rm) ==
    [has |-> has, ocr1 |-> ocr1, ocr2 |-> ocr2, scan |-> scan, pike |-> pike,
     cpOut |-> cpOut, rm |-> rm, now |-> 1]

Returned(results) == {r \in results : r.status # "raise"}

PdfEnv ==
    {PEnv(TRUE, ocr1, NoTool, "needs", NoTool, cpOut, rm) :
        ocr1 \in TempResults \ (Failed(TempResults) \cup Raised(TempResults)),
        cpOut \in CopyResults, rm \in BOOLEAN}
        \cup {PEnv(TRUE, ocr1, NoTool, "needs", NoTool, "ok", TRUE) :
                ocr1 \in Raised(TempResults)}
        \cup {PEnv(TRUE, ocr1, ocr2, "needs", NoTool, cpOut, rm) :
                ocr1 \in Failed(TempResults), ocr2 \in Returned(TempResults),
                cpOut \in CopyResults, rm \in BOOLEAN}
        \cup {PEnv(TRUE, ocr1, ocr2, "needs", NoTool, "ok", TRUE) :
                ocr1 \in Failed(TempResults), ocr2 \in Raised(TempResults)}
        \cup {PEnv(FALSE, NoTool, NoTool, "raise", NoTool, "ok", TRUE)}
        \cup {PEnv(FALSE, NoTool, NoTool, "optimal", NoTool, cpOut, TRUE) :
                cpOut \in CopyResults}
        \cup {PEnv(FALSE, NoTool, NoTool, "needs", pike, cpOut, rm) :
                pike \in Returned(LibResults), cpOut \in CopyResults,
                rm \in BOOLEAN}
        \cup {PEnv(FALSE, NoTool, NoTool, "needs", pike, "ok", TRUE) :
                pike \in Raised(LibResults)}

\* <dirname(dest_file)>/.tmp_pdf_conversion_<now>: one name per destination
\* directory and clock second.
PdfDir(d, now) == Temp(d, "pdf_dir", now)

\* temp_dir/optimized.pdf
PdfFile(d, now) == Temp(d, "pdf_file", now)

\* finally: remove optimized.pdf (again after chmod, again with unlink),
\* then the directory if it is empty; every failure is caught and printed.
PdfFinally(tm, s, d, e) ==
    IF PdfFile(d, e.now) \in tm /\ ~e.rm
    THEN tm
    ELSE tm \ {PdfFile(d, e.now), PdfDir(d, e.now)}

\* except Exception: print, then traceback.print_exc().  The module never
\* imports traceback, so the handler raises NameError before it removes
\* anything, and the exception leaves optimize_pdf.
PdfHandler(fs, tm, d, tools, absent) ==
    [Res(FALSE, fs, tm, tools, "proceed", "error", FALSE, absent)
        EXCEPT !.raised = TRUE]

\* An exception inside the inner try block, through the finally block.
PdfRaise(fs, tm, s, d, e, tools, absent) ==
    PdfHandler(fs, PdfFinally(tm, s, d, e), d, tools, absent)

\* shutil.copy2 to the destination, then return True through the finally.
PdfCopy(fs, tm, s, d, e, content, tools, path, optimised, absent) ==
    LET o == CopyWrite(fs, d, content, e.cpOut)
        t == Append(tools, "copy2")
    IN IF e.cpOut = "ok"
       THEN Res(TRUE, o, PdfFinally(tm, s, d, e), t, "proceed", path, optimised,
                absent)
       ELSE PdfRaise(o, tm, s, d, e, t, absent)

\* The comparison of sizes and the copy of the smaller file (lines 652-696);
\* size is what optimized.pdf holds, -1 when there is no such file.
PdfKeep(src, fs, tm, s, d, e, success, size, how, tools, absent) ==
    LET tm1 == IF size = -1 THEN tm ELSE tm \cup {PdfFile(d, e.now)}
    IN IF ~success
       THEN PdfCopy(fs, tm1, s, d, e, src[s], tools, "copied", FALSE, absent)
       ELSE IF size = -1
       THEN PdfRaise(fs, tm1, s, d, e, tools, absent)
       ELSE IF src[s].size < size
       THEN PdfCopy(fs, tm1, s, d, e, src[s], tools, "copied", TRUE, absent)
       ELSE PdfCopy(fs, tm1, s, d, e, Made(s, how, size), tools, "optimized",
                    TRUE, absent)

\* An ocrmypdf step that gives up after the first non-zero exit.
PdfOcrNoRetry(src, fs, tm, s, d, e) ==
    LET t1 == <<"ocrmypdf_version", "ocrmypdf_skip_text">>
    IN IF e.ocr1.status = "raise"
       THEN PdfRaise(fs, IF e.ocr1.out = -1 THEN tm ELSE tm \cup {PdfFile(d, e.now)},
                     s, d, e, t1, FALSE)
       ELSE PdfKeep(src, fs, tm, s, d, e, e.ocr1.status = "ok", e.ocr1.out,
                    "ocr", t1, FALSE)

\* ocrmypdf --skip-text, and --force-ocr when that returned non-zero
PdfOcr(src, fs, tm, s, d, e) ==
    LET t1 == <<"ocrmypdf_version", "ocrmypdf_skip_text">>
        t2 == Append(t1, "ocrmypdf_force_ocr")
        size2 == IF e.ocr2.out = -1 THEN e.ocr1.out ELSE e.ocr2.out
        withFile(size) == IF size = -1 THEN tm ELSE tm \cup {PdfFile(d, e.now)}
    IN CASE e.ocr1.status = "raise" ->
              PdfRaise(fs, withFile(e.ocr1.out), s, d, e, t1, FALSE)
         [] e.ocr1.status = "ok" ->
              PdfKeep(src, fs, tm, s, d, e, TRUE, e.ocr1.out, "ocr", t1, FALSE)
         [] e.ocr1.status = "fail" ->
              IF e.ocr2.status = "raise"
              THEN PdfRaise(fs, withFile(size2), s, d, e, t2, FALSE)
              ELSE PdfKeep(src, fs, tm, s, d, e, e.ocr2.status = "ok", size2,
                           "ocr", t2, FALSE)

\* The scan of the embedded images with PyMuPDF, then pikepdf
PdfStructural(src, fs, tm, s, d, e) ==
    LET t0 == <<"ocrmypdf_version", "fitz">>
        t1 == Append(t0, "pikepdf")
    IN CASE e.scan = "raise" -> PdfRaise(fs, tm, s, d, e, t0, TRUE)
         [] e.scan = "optimal" ->
              PdfCopy(fs, tm, s, d, e, src[s], t0, "optimal", FALSE, TRUE)
         [] e.scan = "needs" ->
              IF e.pike.status = "raise"
              THEN PdfRaise(fs,
                            IF e.pike.out = -1 THEN tm
                            ELSE tm \cup {PdfFile(d, e.now)},
                            s, d, e, t1, TRUE)
              ELSE PdfKeep(src, fs, tm, s, d, e, e.pike.out > 0, e.pike.out,
                           "pike", t1, TRUE)

optimize_pdf(src, fs, tm, s, d, e) ==
    IF DestDone(fs, d)
    THEN Skip(TRUE, fs, tm, d, "exists")
    ELSE IF SourceInvalid(src, s)
    THEN Skip(FALSE, fs, tm, d, "invalid")
    ELSE IF IsHidden(s.base)
    THEN Skip(FALSE, fs, tm, d, "hidden")
    ELSE IF e.has
    THEN PdfOcr(src, fs, tm \cup {PdfDir(d, e.now)}, s, d, e)
    ELSE PdfStructural(src, fs, tm \cup {PdfDir(d, e.now)}, s, d, e)

(***************************************************************************)
(* The walker: where each file of the input tree goes                      *)
(***************************************************************************)

\* os.path.basename(input_dir), the parent of a media folder at the root
InputBase == "roms"

\* <output>/gamelists/<rel_path>/gamelist.xml
GamelistDest(s) == [dir |-> <<"gamelists">> \o s.dir, base |-> s.base]

\* The folders named media that hold the file in one of their subfolders.
MediaAbove(s) == {k \in 1..(Len(s.dir) - 1) : s.dir[k] = "media"}

\* A destination directory that drops the path below the subfolder.
MediaDestDirFlat(s, k) ==
    <<"downloaded_media", IF k = 1 THEN "roms" ELSE s.dir[k - 1], s.dir[k + 1]>>

\* <output>/downloaded_media/<parent_folder>/<item>/<rel_path>
MediaDestDir(s, k) ==
    <<"downloaded_media", IF k = 1 THEN InputBase ELSE s.dir[k - 1], s.dir[k + 1]>>
        \o SubSeq(s.dir, k + 2, Len(s.dir))

\* The branch of copy_media_folders a file name takes.
Dispatch(base, optimize_videos) ==
    LET file_lower == Lower(base)
    IN IF IsHidden(base) THEN "hidden"
       ELSE IF optimize_videos /\ EndsWith(file_lower, DotMp4) THEN "video"
       ELSE IF EndsWith(file_lower, DotPdf) THEN "pdf"
       ELSE IF \/ EndsWith(file_lower, DotPng)
               \/ EndsWith(file_lower, DotJpg)
               \/ EndsWith(file_lower, DotJpeg)
       THEN "image"
       ELSE "plain"

\* os.path.splitext(file)[0] + ".mkv" for a video, the name itself otherwise
DestName(base, kind) == IF kind = "video" THEN SplitextRoot(base) \o DotMkv ELSE base

GamelistJobs(src) ==
    {[src |-> s, dst |-> GamelistDest(s), kind |-> "gamelist"] :
        s \in {x \in DOMAIN src : x.base = GamelistName}}

MediaJobs(src, optimize_videos) ==
    UNION {{[src |-> s,
             dst |-> [dir |-> MediaDestDir(s, k),
                      base |-> DestName(s.base, Dispatch(s.base, optimize_videos))],
             kind |-> Dispatch(s.base, optimize_videos)] : k \in MediaAbove(s)} :
           s \in DOMAIN src}

(***************************************************************************)
(* State                                                                   *)
(*   inp, out   the input tree and the output tree                         *)
(*   tmp        the temporary entries lying in the output tree             *)
(*   flags      the command line; --skip_pdf_optimization, which no code   *)
(*              reads after parsing, is set in the runs over one file      *)
(*              (SpecLayout) and left at its default elsewhere             *)
(*   pc         "start", "gamelists", "media", "exit"; "call" when a       *)
(*              converter is called on its own                             *)
(*   exit_code  -1 while the process runs                                  *)
(*   run        1 for the first run over the pair, 2 for the second        *)
(*   rec        what became of each job of this run                        *)
(*   work       the jobs of this run that invoked a converter or a copy    *)
(*   counters   the counters the two walks print                           *)
(*   snap       the output tree as the previous run left it                *)
(*   last       the last call of a converter made on its own               *)
(***************************************************************************)

SysDir == <<"snes">>

CoverDir == <<"snes", "media", "covers">>

File(dir, base) == [dir |-> dir, base |-> base]

VideoFile == File(CoverDir, <<"a">> \o DotMp4)
ImageFile == File(CoverDir, <<"a">> \o DotPng)
SpacedFile == File(CoverDir, <<"a", " ", "b">> \o DotJpg)
PdfFile1 == File(CoverDir, <<"a">> \o DotPdf)
PlainFile == File(CoverDir, <<"a", ".", "t", "x", "t">>)
HiddenFile == File(CoverDir, HiddenPrefix \o <<"a">> \o DotPng)
GamelistFile == File(SysDir, GamelistName)

\* The files an input tree is made of: at most MaxFiles of them, each
\* empty or MaxSize bytes long.
Candidates == {VideoFile, ImageFile, PdfFile1, PlainFile, HiddenFile, GamelistFile}

Trees ==
    UNION {[paths -> {0, MaxSize}] :
           paths \in {x \in SUBSET Candidates : Cardinality(x) <= MaxFiles}}

Zero ==
    [files_moved |-> 0, gamelists_skipped |-> 0, files_copied |-> 0,
     files_skipped |-> 0, videos_optimized |-> 0, images_optimized |-> 0]

NoRec == [j \in {} |-> "none"]

NoCall == [fn |-> "none"]

Call(fn, j, r, e) ==
    [fn |-> fn, src |-> j.src, dst |-> j.dst,
     srcSize |-> IF Exists(inp, j.src) THEN inp[j.src].size ELSE -1,
     dstSize |-> IF Exists(out, j.dst) THEN out[j.dst].size ELSE -1,
     ret |-> r.ret, raised |-> r.raised, tools |-> r.tools,
     decision |-> r.decision, path |-> r.path, optimised |-> r.optimised,
     absent |-> r.absent, env |-> e]

Init ==
    /\ flags \in [input_is_dir : BOOLEAN, skip_gamelists : BOOLEAN,
                  skip_media : BOOLEAN, optimize_videos : BOOLEAN,
                  skip_pdf_optimization : {FALSE}]
    /\ \E sizes \in Trees :
          inp = IF flags.input_is_dir
                THEN [s \in DOMAIN sizes |-> Original(s, sizes[s])]
                ELSE EmptyTree
    /\ out = EmptyTree
    /\ tmp = {}
    /\ pc = "start"
    /\ exit_code = -1
    /\ run = 1
    /\ rec = NoRec
    /\ work = {}
    /\ counters = Zero
    /\ snap = EmptyTree
    /\ last = NoCall

Count(name) == counters' = [counters EXCEPT ![name] = @ + 1]

Record(j, status) == rec' = [x \in (DOMAIN rec) \cup {j} |-> IF x = j THEN status ELSE rec[x]]

\* An exception nobody catches ends the process with a traceback.
Abort == pc' = "exit" /\ exit_code' = 1

\* if not os.path.isdir(args.input_dir): exit(1)
Preflight ==
    /\ pc = "start"
    /\ IF flags.input_is_dir
       THEN pc' = "gamelists" /\ exit_code' = exit_code
       ELSE Abort
    /\ UNCHANGED <<inp, out, tmp, flags, run, rec, work, counters, snap, last>>

(***************************************************************************)
(* move_gamelists                                                          *)
(***************************************************************************)

PendingGamelists ==
    IF flags.skip_gamelists THEN {} ELSE GamelistJobs(inp) \ DOMAIN rec

GamelistSkip ==
    /\ pc = "gamelists"
    /\ \E j \in PendingGamelists :
          /\ DestDone(out, j.dst)
          /\ Record(j, "skipped")
          /\ Count("gamelists_skipped")
    /\ UNCHANGED <<inp, out, tmp, flags, pc, exit_code, run, work, snap, last>>

\* A transfer that takes the source away, as shutil.move does.
SourceAfterMove(src, s) == Del(src, s)

\* What shutil.copy2 makes of the tree it reads from: the source stays.
SourceAfterCopy(src, s) == src

\* shutil.copy2(source_file, dest_file), unguarded
GamelistCopy ==
    /\ pc = "gamelists"
    /\ \E j \in PendingGamelists, c \in CopyResults :
          /\ ~DestDone(out, j.dst)
          /\ out' = CopyWrite(out, j.dst, inp[j.src], c)
          /\ inp' = SourceAfterCopy(inp, j.src)
          /\ work' = work \cup {j}
          /\ IF c = "ok"
             THEN /\ Record(j, "copied")
                  /\ Count("files_moved")
                  /\ UNCHANGED <<pc, exit_code>>
             ELSE /\ Record(j, "raised")
                  /\ Abort
                  /\ UNCHANGED counters
    /\ UNCHANGED <<tmp, flags, run, snap, last>>

GamelistsDone ==
    /\ pc = "gamelists"
    /\ PendingGamelists = {}
    /\ pc' = "media"
    /\ UNCHANGED <<inp, out, tmp, flags, exit_code, run, rec, work, counters, snap, last>>

(***************************************************************************)
(* copy_media_folders                                                      *)
(***************************************************************************)

PendingMedia ==
    IF flags.skip_media THEN {}
    ELSE MediaJobs(inp, flags.optimize_videos) \ DOMAIN rec

\* The pending files of one branch whose destination is not there yet.
ToDo(kind) == {j \in PendingMedia : j.kind = kind /\ ~DestDone(out, j.dst)}

\* if file.startswith("._"): files_skipped += 1; continue
MediaHidden ==
    /\ pc = "media"
    /\ \E j \in PendingMedia :
          /\ j.kind = "hidden"
          /\ Record(j, "hidden")
          /\ Count("files_skipped")
    /\ UNCHANGED <<inp, out, tmp, flags, pc, exit_code, run, work, snap, last>>

\* The walker's own test of the destination, in each of the four branches.
MediaSkip ==
    /\ pc = "media"
    /\ \E j \in PendingMedia :
          /\ j.kind # "hidden"
          /\ DestDone(out, j.dst)
          /\ Record(j, "skipped")
          /\ Count("files_skipped")
    /\ UNCHANGED <<inp, out, tmp, flags, pc, exit_code, run, work, snap, last>>

\* What the walker does with the value a converter returns: the counters
\* named are incremented on True, nothing is counted on False, and an
\* exception leaving the converter leaves the walker too.
Converted(j, r, names) ==
    /\ out' = r.out
    /\ tmp' = r.tmp
    /\ work' = work \cup {j}
    /\ IF r.raised
       THEN Record(j, "raised") /\ Abort /\ UNCHANGED counters
       ELSE /\ UNCHANGED <<pc, exit_code>>
            /\ IF r.ret
               THEN /\ Record(j, "copied")
                    /\ counters' = [n \in DOMAIN counters |->
                                      IF n \in names THEN counters[n] + 1
                                      ELSE counters[n]]
               ELSE Record(j, "failed") /\ UNCHANGED counters
    /\ UNCHANGED <<inp, flags, run, snap, last>>

MediaVideo ==
    /\ pc = "media"
    /\ \E j \in ToDo("video") :
          \E r \in {optimize_video(inp, out, tmp, j.src, j.dst, e) : e \in VideoEnv} :
             Converted(j, r, {"videos_optimized", "files_copied"})

MediaPdf ==
    /\ pc = "media"
    /\ \E j \in ToDo("pdf") :
          \E r \in {optimize_pdf(inp, out, tmp, j.src, j.dst, e) : e \in PdfEnv} :
             Converted(j, r, {"files_copied"})

MediaImage ==
    /\ pc = "media"
    /\ \E j \in ToDo("image") :
          \E r \in {optimize_image(inp, out, tmp, j.src, j.dst, e) :
                      e \in ImageEnv(j.src)} :
             Converted(j, r, {"images_optimized", "files_copied"})

\* shutil.copy2(src_file_path, dest_file_path), unguarded
MediaPlain ==
    /\ pc = "media"
    /\ \E j \in ToDo("plain"), c \in CopyResults :
          /\ out' = CopyWrite(out, j.dst, inp[j.src], c)
          /\ work' = work \cup {j}
          /\ IF c = "ok"
             THEN /\ Record(j, "copied")
                  /\ Count("files_copied")
                  /\ UNCHANGED <<pc, exit_code>>
             ELSE /\ Record(j, "raised")
                  /\ Abort
                  /\ UNCHANGED counters
    /\ UNCHANGED <<inp, tmp, flags, run, snap, last>>

\* The end of the script: exit code 0.
MediaDone ==
    /\ pc = "media"
    /\ PendingMedia = {}
    /\ pc' = "exit"
    /\ exit_code' = 0
    /\ UNCHANGED <<inp, out, tmp, flags, run, rec, work, counters, snap, last>>

\* The program is started again on the same input and output directories.
Rerun ==
    /\ pc = "exit"
    /\ exit_code = 0
    /\ run = 1
    /\ run' = 2
    /\ pc' = "start"
    /\ exit_code' = -1
    /\ snap' = out
    /\ rec' = NoRec
    /\ work' = {}
    /\ counters' = Zero
    /\ last' = NoCall
    /\ UNCHANGED <<inp, out, tmp, flags>>

Next ==
    \/ Preflight
    \/ GamelistSkip
    \/ GamelistCopy
    \/ GamelistsDone
    \/ MediaHidden
    \/ MediaSkip
    \/ MediaVideo
    \/ MediaPdf
    \/ MediaImage
    \/ MediaPlain
    \/ MediaDone
    \/ Rerun

Spec == Init /\ [][Next]_vars

(***************************************************************************)
(* A converter called on its own, once, in any state of the two trees: the *)
(* source missing, empty or 1..MaxSize bytes long, hidden or not; the      *)
(* destination missing, empty or non-empty.  snap keeps the output tree as *)
(* it was before the call.                                                 *)
(***************************************************************************)

Hide(f) == File(f.dir, HiddenPrefix \o f.base)

\* The destination the walker gives the file when it takes that branch.
CallJob(s, kind) ==
    [src |-> s,
     dst |-> [dir |-> MediaDestDir(s, 2), base |-> DestName(s.base, kind)],
     kind |-> kind]

CallJobs ==
    {CallJob(s, "video") : s \in {VideoFile, Hide(VideoFile)}}
        \cup {CallJob(s, "image") : s \in {ImageFile, SpacedFile, PlainFile, HiddenFile}}
        \cup {CallJob(s, "pdf") : s \in {PdfFile1, Hide(PdfFile1)}}

\* What lies at a destination before the call.
Prior(j, n) == Made(j.src, "prior", n)

InitCall ==
    /\ flags = [input_is_dir |-> TRUE, skip_gamelists |-> TRUE,
                skip_media |-> TRUE, optimize_videos |-> TRUE,
                skip_pdf_optimization |-> FALSE]
    /\ \E j \in CallJobs, n \in -1..MaxSize, m \in -1..1 :
          /\ inp = IF n = -1 THEN EmptyTree
                   ELSE Put(EmptyTree, j.src, Original(j.src, n))
          /\ out = IF m = -1 THEN EmptyTree
                   ELSE Put(EmptyTree, j.dst, Prior(j, m))
    /\ tmp = {}
    /\ pc = "call"
    /\ exit_code = -1
    /\ run = 1
    /\ rec = NoRec
    /\ work = {}
    /\ counters = Zero
    /\ snap = EmptyTree
    /\ last = NoCall

Called(fn, j, r, e) ==
    /\ out' = r.out
    /\ tmp' = r.tmp
    /\ snap' = out
    /\ last' = Call(fn, j, r, e)
    /\ UNCHANGED <<inp, flags, pc, exit_code, run, rec, work, counters>>

CallVideo ==
    /\ pc = "call"
    /\ last = NoCall
    /\ \E j \in CallJobs, e \in VideoEnv :
          /\ j.kind = "video"
          /\ Called("optimize_video", j,
                    optimize_video(inp, out, tmp, j.src, j.dst, e), e)

CallImage ==
    /\ pc = "call"
    /\ last = NoCall
    /\ \E j \in CallJobs :
          /\ j.kind = "image"
          /\ \E e \in ImageEnv(j.src) :
                Called("optimize_image", j,
                       optimize_image(inp, out, tmp, j.src, j.dst, e), e)

\* The embedded images are what the scan of lines 608-631 reads from the
\* source; a job that found ocrmypdf does not scan.
CallPdf ==
    /\ pc = "call"
    /\ last = NoCall
    /\ \E j \in CallJobs, e \in PdfEnv, images \in PdfImages :
          /\ j.kind = "pdf"
          /\ IF e.has THEN images = {}
             ELSE e.scan \in {"raise", ScanOf(images)}
          /\ Called("optimize_pdf", j,
                    optimize_pdf(inp, out, tmp, j.src, j.dst, e),
                    e @@ [images |-> images])

NextCall ==
    \/ CallVideo
    \/ CallImage
    \/ CallPdf

SpecCall == InitCall /\ [][NextCall]_vars

(***************************************************************************)
(* Properties of a run (Spec)                                              *)
(***************************************************************************)

\* A job is complete once the walker has the converter's or the copy's
\* answer: counted as copied, or failed.
Completed == {j \in DOMAIN rec : rec[j] \in {"copied", "failed"}}

\* C1: for every file the run dispatched, at job completion exactly one of
\* the two holds: the destination exists with non-zero size, or the job is
\* recorded as failed.
C1_DestXorFailed ==
    \A j \in Completed : NonEmpty(out, j.dst) # (rec[j] = "failed")

\* C3: no failure inside a job aborts the run: a run over a valid input
\* directory ends with exit code 0 after every file has been processed; the
\* only non-zero exit is the pre-flight check.
C3_OnlyPreflightExitsNonZero ==
    pc = "exit" =>
        IF flags.input_is_dir
        THEN exit_code = 0 /\ PendingGamelists = {} /\ PendingMedia = {}
        ELSE exit_code = 1

\* C4 as stated: the second run invokes no converter, tool or copy and
\* leaves the output tree byte-identical.
C4_SecondRunDoesNothing == run = 2 => work = {} /\ out = snap

\* C4 as amended: the second run invokes no converter, tool or copy for a
\* file whose destination the first run left non-empty, and leaves every
\* such destination byte-identical.
C4_SecondRunSkipsDone ==
    run = 2 =>
        /\ \A j \in work : ~NonEmpty(snap, j.dst)
        /\ \A p \in DOMAIN snap :
              NonEmpty(snap, p) => Exists(out, p) /\ out[p] = snap[p]

\* A second run has ended, having skipped a file and worked on another.
C4_Witness ==
    /\ run = 2
    /\ pc = "exit"
    /\ work # {}
    /\ \E j \in DOMAIN rec : rec[j] = "skipped"

\* C7: whatever the flags, a source file whose basename starts with "._"
\* never has a destination created or written from it, and no converter or
\* copy is invoked for it.
C7_HiddenNeverWritten ==
    \A s \in DOMAIN inp :
        StartsWith(s.base, HiddenPrefix) =>
            /\ \A j \in work : j.src # s
            /\ \A p \in DOMAIN out : out[p].origin # s

\* A run has ended that met a hidden file among the media and wrote
\* another file.
C7_Witness ==
    /\ pc = "exit"
    /\ exit_code = 0
    /\ \E j \in DOMAIN rec : rec[j] = "hidden"
    /\ DOMAIN out # {}

(***************************************************************************)
(* Properties of one call of a converter (SpecCall)                        *)
(***************************************************************************)

\* The converter went past its early returns.
Ran == last.fn # "none" /\ last.decision = "proceed"

ToolsUsed == {last.tools[i] : i \in 1..Len(last.tools)}

\* C2: when a converter returns failure for a job whose destination did not
\* exist beforehand, no file exists at the destination afterwards, neither a
\* zero-byte one nor a partial one (the handlers' own removals succeeding).
C2_NoFileAfterFailure ==
    (/\ last.fn # "none"
     /\ ~last.raised
     /\ ~last.ret
     /\ last.dstSize = -1
     /\ last.env.rm) =>
        ~Exists(out, last.dst)

\* C5 as stated: a job that returns success after running has size(dest) <=
\* size(source) when the optimisation step succeeded and produced an output,
\* the remux path of a video included, and otherwise dest is a byte-identical
\* copy of the source.
C5_SizeLaw ==
    (Ran /\ last.ret) =>
        /\ Exists(out, last.dst)
        /\ IF last.optimised
           THEN out[last.dst].size <= last.srcSize
           ELSE out[last.dst] = inp[last.src]

\* C5 as amended: the same law, except that on the remux path of a video
\* dest is the stream-copy remux of the source, of whatever size.
C5_SizeLawButRemux ==
    (Ran /\ last.ret) =>
        /\ Exists(out, last.dst)
        /\ IF last.path = "remuxed"
           THEN out[last.dst].origin = last.src /\ out[last.dst].form = "remux"
           ELSE IF last.optimised
           THEN out[last.dst].size <= last.srcSize
           ELSE out[last.dst] = inp[last.src]

\* A job kept an optimised output strictly smaller than its source.
C5_Witness ==
    /\ Ran
    /\ last.ret
    /\ last.optimised
    /\ last.path \in {"transcoded", "optimized"}
    /\ out[last.dst].size < last.srcSize

\* C6: an image or PDF job with a valid source whose primary optimisation
\* tool is absent still returns success and leaves a non-empty destination,
\* whatever the later fallbacks do (the copies themselves succeeding).
C6_FallbackComplete ==
    (/\ Ran
     /\ last.fn \in {"optimize_image", "optimize_pdf"}
     /\ last.absent
     /\ last.env.cpOut = "ok"
     /\ last.env.rm) =>
        last.ret /\ NonEmpty(out, last.dst)

\* C8: for a source whose basename starts with "._" a converter returns the
\* value of the hidden-file skip, False, in every state of the file system.
C8_HiddenSameReturn ==
    (last.fn # "none" /\ StartsWith(last.src.base, HiddenPrefix)) => ~last.ret

\* C9: when a converter short-circuits, the file system is as it was: no
\* destination created, changed or removed, no temporary directory made, no
\* external tool invoked.
C9_ShortCircuitPure ==
    (last.fn # "none" /\ last.decision # "proceed") =>
        /\ out = snap
        /\ tmp = {}
        /\ last.tools = <<>>

\* A converter short-circuited on an invalid source with an empty file
\* lying at the destination.
C9_Witness ==
    /\ last.fn # "none"
    /\ last.decision = "invalid"
    /\ last.dstSize = 0
    /\ Exists(out, last.dst)

\* The encoder succeeded and left a file for the size comparison.
Encoded ==
    /\ last.fn = "optimize_video"
    /\ last.decision = "proceed"
    /\ last.env.probe = "video"
    /\ last.env.enc.status = "ok"
    /\ last.env.enc.out >= 1

Oversize == last.srcSize < last.env.enc.out

RemuxGood == last.env.remux.status = "ok" /\ last.env.remux.out >= 1

Kept ==
    /\ last.ret
    /\ Exists(out, last.dst)
    /\ out[last.dst] = Made(last.src, "x265", last.env.enc.out)
    /\ "ffmpeg_remux" \notin ToolsUsed

Remuxed ==
    /\ last.ret
    /\ Exists(out, last.dst)
    /\ out[last.dst] = Made(last.src, "remux", last.env.remux.out)

CopiedSource ==
    /\ last.ret
    /\ Exists(out, last.dst)
    /\ out[last.dst] = inp[last.src]

Transcoded ==
    {j \in DOMAIN rec :
        /\ j.kind = "video"
        /\ rec[j] = "copied"
        /\ Exists(out, j.dst)
        /\ out[j.dst].form = "x265"}

\* C11: a video whose transcoded output was larger than the source, and
\* whose destination is the remux or the copy of the source, is not reported
\* as optimized: 'videos optimized' counts the transcoded videos only.
C11_RemuxedNotOptimized == counters.videos_optimized = Cardinality(Transcoded)

(***************************************************************************)
(* Properties of the exception handlers and of cleanup (SpecCall)          *)
(***************************************************************************)

\* A step of optimize_video raised after the early returns.
VideoRaised == last.fn = "optimize_video" /\ Ran /\ last.path = "error"

WroteDest ==
    /\ Ran
    /\ last.fn \in {"optimize_image", "optimize_pdf"}
    /\ Len(last.tools) > 0
    /\ last.tools[Len(last.tools)] = "copy2"
    /\ last.env.cpOut = "ok"
    /\ (last.fn = "optimize_image" => last.env.cpIn = "ok")

\* C13: a failure to remove a temporary file or the temporary directory at
\* the end of an image or PDF job is never escalated: a job that already
\* wrote dest still returns success and dest is kept.
C13_CleanupNeverEscalated == WroteDest => last.ret /\ Exists(out, last.dst)

\* C14: after an image or PDF job that got past the early returns, whatever
\* its exit path, and provided file removal itself does not fail, none of the
\* job's temporary files and no temporary directory it created remains.
C14_NoTempLeft ==
    (Ran /\ last.fn \in {"optimize_image", "optimize_pdf"} /\ last.env.rm) =>
        tmp = {}

\* An image job whose copy to dest raised, after the temporary input and
\* output were written, left nothing temporary behind.
C14_Witness ==
    /\ Ran
    /\ last.fn = "optimize_image"
    /\ last.env.rm
    /\ last.env.cpOut # "ok"
    /\ "webptools" \in ToolsUsed
    /\ last.env.webp.out > 0
    /\ ~last.ret
    /\ tmp = {}

(***************************************************************************)
(* A run over an input tree of one file, lying anywhere: at the root, in a *)
(* system folder, directly in a media folder, in a subfolder of it or      *)
(* deeper, under a media folder at the root or under two of them.          *)
(***************************************************************************)

LayoutDirs ==
    {<<>>,
     <<"snes">>,
     <<"snes", "covers">>,
     <<"snes", "media">>,
     <<"snes", "media", "covers">>,
     <<"snes", "media", "covers", "sub">>,
     <<"media", "covers">>,
     <<"ports", "snes", "media", "covers">>,
     <<"snes", "media", "covers", "media", "sub">>}

LayoutBases ==
    {GamelistName,
     <<"a">> \o DotMp4,
     <<"a", ".", "M", "P", "4">>,
     <<"a">> \o DotPng,
     <<"a">> \o DotPdf,
     <<"a", ".", "t", "x", "t">>,
     HiddenPrefix \o <<"a">> \o DotPng}

InitLayout ==
    /\ flags \in [input_is_dir : {TRUE}, skip_gamelists : {FALSE},
                  skip_media : {FALSE}, optimize_videos : BOOLEAN,
                  skip_pdf_optimization : BOOLEAN]
    /\ \E dir \in LayoutDirs, base \in LayoutBases :
          inp = Put(EmptyTree, File(dir, base), Original(File(dir, base), MaxSize))
    /\ out = EmptyTree
    /\ tmp = {}
    /\ pc = "start"
    /\ exit_code = -1
    /\ run = 1
    /\ rec = NoRec
    /\ work = {}
    /\ counters = Zero
    /\ snap = EmptyTree
    /\ last = NoCall

SpecLayout == InitLayout /\ [][Next]_vars

(***************************************************************************)
(* Properties of the layout and of the flags (SpecLayout)                  *)
(***************************************************************************)

\* <name>: the file name with .mp4 replaced by .mkv when videos are
\* optimised, the file name otherwise.
PlacedName(base) ==
    IF flags.optimize_videos /\ EndsWith(Lower(base), DotMp4)
    THEN SubSeq(base, 1, Len(base) - 4) \o DotMkv
    ELSE base

\* Where the layout puts the file s: under gamelists/ when it is a
\* gamelist.xml, and under downloaded_media/<system>/<subfolder>/<R>/ for
\* each media folder it lies below in a subfolder (the system of a media
\* folder at the root is the input directory itself).
Places(s) ==
    (IF s.base = GamelistName
     THEN {File(<<"gamelists">> \o s.dir, s.base)}
     ELSE {})
        \cup {File(<<"downloaded_media",
                     IF k = 1 THEN "roms" ELSE s.dir[k - 1],
                     s.dir[k + 1]>>
                       \o [i \in 1..(Len(s.dir) - k - 1) |-> s.dir[k + 1 + i]],
                   PlacedName(s.base)) :
                k \in {n \in 1..(Len(s.dir) - 1) : s.dir[n] = "media"}}

\* C15: every file of the output tree lies where the layout puts its
\* source, a file directly in a media folder is not copied, and after a run
\* that ended normally every place of every file is filled, except for
\* hidden files and failed jobs.
C15_Layout ==
    /\ \A p \in DOMAIN out : p \in Places(out[p].origin)
    /\ (pc = "exit" /\ exit_code = 0) =>
          \A s \in DOMAIN inp : \A p \in Places(s) :
             \/ Exists(out, p)
             \/ \E j \in DOMAIN rec :
                   j.src = s /\ j.dst = p /\ rec[j] \in {"failed", "hidden"}

\* A video lying below the subfolder of a media folder was placed under
\* its .mkv name, the path below the subfolder kept.
C15_Witness ==
    /\ pc = "exit"
    /\ exit_code = 0
    /\ \E p \in DOMAIN out :
          /\ p.dir = <<"downloaded_media", "snes", "covers", "sub">>
          /\ p.base = <<"a">> \o DotMkv

\* C16: with --skip_pdf_optimization no PDF is optimised: every PDF the run
\* counted as copied lies at its destination as a byte-identical copy of its
\* source.
C16_PdfFlagSkipsOptimisation ==
    flags.skip_pdf_optimization =>
        \A j \in DOMAIN rec :
            (j.kind = "pdf" /\ rec[j] = "copied") =>
                Exists(out, j.dst) /\ out[j.dst] = inp[j.src]

(***************************************************************************)
(* Properties of the summary of a run (Spec)                               *)
(***************************************************************************)

\* What the summary of the media walk reports under a name: the counter of
\* that name, nothing when the walk keeps no such counter.
Reported(name) == IF name \in DOMAIN counters THEN counters[name] ELSE 0

\* C17: at the end of the run every file the media walk enumerated is
\* accounted for in one category, a job whose converter returned failure as
\* failed: copied + skipped + failed equals the number of files enumerated.
C17_FailedTallied ==
    (pc = "exit" /\ exit_code = 0 /\ ~flags.skip_media) =>
        Reported("files_copied") + Reported("files_skipped")
            + Reported("files_failed")
                = Cardinality(MediaJobs(inp, flags.optimize_videos))

(***************************************************************************)
(* Properties of the fallback chains (SpecCall)                            *)
(***************************************************************************)

\* An image job with a supported extension reached its encode attempts.
Encoding ==
    /\ Ran
    /\ last.fn = "optimize_image"
    /\ SupportedImage(last.src)
    /\ last.env.cpIn = "ok"

\* The position of a tool among the tools invoked, 0 when it was not.
Position(tool) ==
    IF tool \in ToolsUsed
    THEN CHOOSE i \in 1..Len(last.tools) : last.tools[i] = tool
    ELSE 0

\* C18: for every image with a supported extension, spaces or parentheses
\* in its path or not, the attempts come in the order (a) the webptools
\* wrapper, (b) the cwebp binary found on PATH, (c) Pillow; (b) is attempted
\* whenever (a) raised or reported a non-zero exit code, (c) whenever (b) is
\* not on PATH, and nothing is attempted after the first success.
C18_FallbackOrder ==
    Encoding =>
        /\ Position("webptools") > 0
        /\ (last.env.webp.status = "ok") = (Position("which") = 0)
        /\ Position("which") > 0 =>
              /\ Position("webptools") < Position("which")
              /\ (last.env.which = "found") = (Position("cwebp_bin") > 0)
              /\ (last.env.which = "notfound") = (Position("pillow") > 0)
        /\ Position("which") = 0 =>
              Position("cwebp_bin") = 0 /\ Position("pillow") = 0

\* No encode attempt of the job left a usable output: each failed, was
\* unavailable, raised, or reported success without a non-empty file.
NoUsableOutput ==
    /\ Encoding
    /\ LET c == IF has_special_chars(last.src) THEN ConvertSpecial(last.env)
                ELSE ConvertPlain(last.env)
       IN ~(c.success /\ c.size > 0)

\* C19: for an image with a valid source and a supported extension, when no
\* encode attempt leaves a usable output, dest is a byte-identical copy of
\* the source and the job returns success (the copy to dest succeeding).
C19_BestEffortCopy ==
    (NoUsableOutput /\ last.env.cpOut = "ok") =>
        /\ last.ret
        /\ Exists(out, last.dst)
        /\ out[last.dst] = inp[last.src]

\* A PDF job that found ocrmypdf installed.
PdfPrimary == Ran /\ last.fn = "optimize_pdf" /\ last.env.has

\* How many times a tool was invoked in the job.
Times(tool) == Cardinality({i \in 1..Len(last.tools) : last.tools[i] = tool})

SkipTextFirst ==
    /\ Times("ocrmypdf_skip_text") = 1
    /\ Position("ocrmypdf_skip_text") = 2
    /\ Times("ocrmypdf_force_ocr") <= 1
    /\ Times("ocrmypdf_force_ocr") = 1 =>
          Position("ocrmypdf_force_ocr") = 3
    /\ "fitz" \notin ToolsUsed
    /\ "pikepdf" \notin ToolsUsed

CopiedUnchanged ==
    last.ret /\ Exists(out, last.dst) /\ out[last.dst] = inp[last.src]

\* C20 as stated: with ocrmypdf available the skip-text variant runs first;
\* if and only if it fails, in whatever way, the force-ocr variant runs once;
\* the structural path is not taken; and when both fail the job returns
\* success with dest a byte-identical copy.
C20_PrimaryRetry ==
    PdfPrimary =>
        /\ SkipTextFirst
        /\ (last.env.ocr1.status # "ok") = (Times("ocrmypdf_force_ocr") = 1)
        /\ (last.env.ocr1.status # "ok" /\ last.env.ocr2.status # "ok") =>
              CopiedUnchanged

\* C20 as amended: failing is exiting with a non-zero status; when both
\* invocations fail the job copies the source and returns success unless
\* that copy raises; an invocation that raises ends the job without retry
\* and without success.
C20_PrimaryRetryOnExitCode ==
    PdfPrimary =>
        /\ SkipTextFirst
        /\ (last.env.ocr1.status = "fail") = (Times("ocrmypdf_force_ocr") = 1)
        /\ (last.env.ocr1.status = "fail" /\ last.env.ocr2.status = "fail") =>
              /\ last.tools[Len(last.tools)] = "copy2"
              /\ IF last.env.cpOut = "ok" THEN CopiedUnchanged ELSE ~last.ret
        /\ (last.env.ocr1.status = "raise" \/ last.env.ocr2.status = "raise") =>
              ~last.ret

\* Both invocations exited non-zero and the source was copied.
C20_Witness ==
    /\ PdfPrimary
    /\ last.env.ocr1.status = "fail"
    /\ last.env.ocr2.status = "fail"
    /\ Times("ocrmypdf_force_ocr") = 1
    /\ CopiedUnchanged

(***************************************************************************)
(* The PDF path without ocrmypdf                                           *)
(***************************************************************************)

\* A PDF job that found no ocrmypdf and in which nothing raised: neither the
\* scan, nor the recompression, nor the copy, nor a removal.
PdfSecondary ==
    /\ Ran
    /\ last.fn = "optimize_pdf"
    /\ ~last.env.has
    /\ last.env.scan # "raise"
    /\ last.env.pike.status # "raise"
    /\ last.env.cpOut = "ok"
    /\ last.env.rm

\* Every embedded image is JPEG2000- or JBIG2-encoded (none is, when the PDF
\* has no image).
AllEfficient == \A i \in last.env.images : i.encoding \in {"jpx", "jb2"}

\* The destination holds the smaller of the source and the recompressed
\* file, the source when the recompression left nothing.
CompetesBySize ==
    /\ last.ret
    /\ Exists(out, last.dst)
    /\ out[last.dst] =
          IF last.env.pike.out > 0 /\ last.env.pike.out <= last.srcSize
          THEN Made(last.src, "pike", last.env.pike.out)
          ELSE inp[last.src]

\* C21: without ocrmypdf, when every embedded image is already JPEG2000- or
\* JBIG2-encoded (a PDF without images included) no recompression runs and
\* the destination is a byte-identical copy returned as success; when some
\* image has another encoding the structural recompression runs exactly once
\* and its output competes with the source by size.
C21_EncodingDecidesRecompression ==
    PdfSecondary =>
        IF AllEfficient
        THEN "pikepdf" \notin ToolsUsed /\ CopiedUnchanged
        ELSE Times("pikepdf") = 1 /\ CompetesBySize

(***************************************************************************)
(* Two image or PDF jobs run one after the other, as the walker runs them, *)
(* each starting in a clock second not before the other's.  rec keeps, for *)
(* each job, the temporary directory it used, the second it started in,    *)
(* whether its removals succeeded, and the temporary entries before and    *)
(* after it.                                                               *)
(***************************************************************************)

ShotDir == <<"snes", "media", "shots">>

MaxSeconds == 2

Seconds == 1..MaxSeconds

\* Two files of each kind in one media subfolder, one in another subfolder.
TempSources ==
    {ImageFile, File(CoverDir, <<"b">> \o DotPng), File(ShotDir, <<"a">> \o DotPng),
     PdfFile1, File(CoverDir, <<"b">> \o DotPdf)}

InitTemp ==
    /\ flags = [input_is_dir |-> TRUE, skip_gamelists |-> TRUE,
                skip_media |-> FALSE, optimize_videos |-> TRUE,
                skip_pdf_optimization |-> FALSE]
    /\ \E s1, s2 \in TempSources :
          /\ s1 # s2
          /\ inp = [s \in {s1, s2} |-> Original(s, MaxSize)]
    /\ out = EmptyTree
    /\ tmp = {}
    /\ pc = "media"
    /\ exit_code = -1
    /\ run = 1
    /\ rec = NoRec
    /\ work = {}
    /\ counters = Zero
    /\ snap = EmptyTree
    /\ last = NoCall

\* The job runs in second t and leaves through return or through an
\* exception, which ends the walk.
Started(j, r, rm, t, temp_dir) ==
    /\ \A x \in DOMAIN rec : rec[x].now <= t
    /\ out' = r.out
    /\ tmp' = r.tmp
    /\ work' = work \cup {j}
    /\ Record(j, [temp_dir |-> temp_dir, now |-> t, rm |-> rm,
                  before |-> tmp, after |-> r.tmp])
    /\ IF r.raised THEN Abort ELSE UNCHANGED <<pc, exit_code>>
    /\ UNCHANGED <<inp, flags, run, counters, snap, last>>

TempImage ==
    /\ pc = "media"
    /\ \E j \in ToDo("image"), t \in Seconds :
          \E e \in ImageEnv(j.src) :
             Started(j, optimize_image(inp, out, tmp, j.src, j.dst, e), e.rm, t,
                     WebpDir(j.dst))

TempPdf ==
    /\ pc = "media"
    /\ \E j \in ToDo("pdf"), t \in Seconds :
          \E e \in {[x EXCEPT !.now = t] : x \in PdfEnv} :
             Started(j, optimize_pdf(inp, out, tmp, j.src, j.dst, e), e.rm, t,
                     PdfDir(j.dst, e.now))

NextTemp ==
    \/ TempImage
    \/ TempPdf

SpecTemp == InitTemp /\ [][NextTemp]_vars

\* The temporary entries that lay in the output tree before the job are
\* still there after it.
RemovesNothingOfOthers(j) == rec[j].before \subseteq rec[j].after

\* A job whose own removals succeed leaves no temporary directory.
NotBlocked(j) == rec[j].rm => rec[j].temp_dir \notin rec[j].after

\* C22: any two distinct image or PDF jobs, two jobs writing into one
\* destination directory and two jobs started within one clock second
\* included, use different temporary directories, and no job's cleanup
\* removes or is blocked by the temporary entries of another job.
C22_UniqueWorkspaces ==
    /\ \A j1, j2 \in DOMAIN rec :
          j1 # j2 => rec[j1].temp_dir # rec[j2].temp_dir
    /\ \A j \in DOMAIN rec : RemovesNothingOfOthers(j) /\ NotBlocked(j)

(***************************************************************************)
(* The walk over the media folders of a tree of two files, into an empty   *)
(* output tree: files that differ in their extension only, media folders   *)
(* under parents of one name, a media folder inside a media subfolder.     *)
(***************************************************************************)

PairSources ==
    {VideoFile,
     File(CoverDir, <<"a">> \o DotMkv),
     PlainFile,
     File(<<"ports", "snes", "media", "covers">>, PlainFile.base),
     File(<<"snes", "media", "snes", "media", "covers">>, PlainFile.base)}

InitPair ==
    /\ flags \in [input_is_dir : {TRUE}, skip_gamelists : {TRUE},
                  skip_media : {FALSE}, optimize_videos : BOOLEAN,
                  skip_pdf_optimization : {FALSE}]
    /\ \E s1, s2 \in PairSources :
          /\ s1 # s2
          /\ inp = [s \in {s1, s2} |-> Original(s, MaxSize)]
    /\ out = EmptyTree
    /\ tmp = {}
    /\ pc = "media"
    /\ exit_code = -1
    /\ run = 1
    /\ rec = NoRec
    /\ work = {}
    /\ counters = Zero
    /\ snap = EmptyTree
    /\ last = NoCall

NextPair ==
    \/ MediaSkip
    \/ MediaVideo
    \/ MediaPlain
    \/ MediaDone

SpecPair == InitPair /\ [][NextPair]_vars

\* C23: within one run two distinct source files never map to the same
\* destination path, so that no source file is skipped or overwritten
\* because of the output of another: for files of one directory that differ
\* in extension only, for media folders whose parents have the same name at
\* different places, and for media folders nested in a media subfolder.
C23_InjectiveDestinations ==
    /\ \A j1, j2 \in DOMAIN rec : j1.src # j2.src => j1.dst # j2.dst
    /\ \A j \in DOMAIN rec : rec[j] # "skipped"
    /\ \A j \in DOMAIN rec :
          (rec[j] = "copied" /\ Exists(out, j.dst)) => out[j.dst].origin = j.src

(***************************************************************************)
(* The input tree                                                          *)
(***************************************************************************)

\* The gamelists this step placed under <output>/gamelists.
Placed == {j \in (DOMAIN rec') \ (DOMAIN rec) : j.kind = "gamelist" /\ rec'[j] = "copied"}

====
